---------------------------- MODULE Spec2Model ----------------------------
(***************************************************************************)
(* Model of pharma_chatbot_gsheets.py: a Streamlit script whose main() is  *)
(* re-executed top to bottom on every user interaction of a session.       *)
(* st.session_state is the only state that survives from one run of main() *)
(* to the next.  A run is modelled in the steps its code takes:            *)
(*   Run            lines 112-118  the script starts (rerun or submit)     *)
(*   SkipInit       line  118      qa_chain already in the session state   *)
(*   LoadOK/Fail    lines 120-122 / 127-130   load_pharma_data()           *)
(*   BuildOK/Fail   lines 123-126 / 127-130   get_vectorstore, qa chain    *)
(*   ChatIdle       lines 133-142  chat interface, no question submitted   *)
(*   ChatAsk        lines 133-145  chat interface, question appended       *)
(*   InitFailed     lines 127-128  the handler shows the error             *)
(*   InitStop       lines 129-130  the full error is shown, st.stop()      *)
(*   InvokeOK/Fail  line  150      the QA chain call returns / raises      *)
(*   Respond        lines 151-160  citation line, disclaimer, append       *)
(*   GenerationError lines 161-162 the error is shown                      *)
(*   Interrupt      any st.* call  the host ends the run for the next one  *)
(* Text is modelled as the sequence of the fragments it is concatenated    *)
(* from.  An optional value is a sequence of length 0 or 1.                *)
(***************************************************************************)
EXTENDS Integers, Sequences, FiniteSets

VARIABLES
    session_state,  \* st.session_state: a dict with keys among qa_chain, messages
    pc,             \* position of the current run of main(); "idle" between runs
    prompt,         \* value of st.chat_input in the current run ("" models None)
    docs,           \* local docs of main() (line 121)
    result,         \* local result of main() (line 150), optional
    shown,          \* what the current run displayed: the st.error messages in order,
                    \* and the st.markdown(response) of line 159, optional
    inputRendered,  \* a run has rendered st.chat_input, so a question can be submitted
    sheet,          \* the spreadsheet contents read by the last load_pharma_data, optional
    loads,          \* calls of load_pharma_data in the current run
    asks,           \* calls of the QA chain in the current run
    initFailed,     \* initialization has raised in some run of this session
    turns,          \* questions recorded in the history in this session
    failedTurns,    \* chat turns of this session whose QA chain call raised
    answered,       \* chat turns of this session whose answer was stored
    exc,            \* the exception the current run caught, optional
    interrupted     \* the host ended the current run before its end

vars == <<session_state, pc, prompt, docs, result, shown, inputRendered, sheet,
          loads, asks, initFailed, turns, failedTurns, answered, exc, interrupted>>

----------------------------------------------------------------------------
(* Bounds *)

MaxRows == 2

MaxTurns == 2

(* Program constants *)

K == 4

\* The questions a user submits: the text is opaque to the program.
Questions == {"q1"}

\* The completions the generation service returns.
Answers == {"a1"}

TableNames == {"Medicines", "Diseases", "Symptoms"}

Types == {"medicine", "disease", "symptom"}

Greeting == "Hello! I can help with medicine information, symptoms analysis, and disease information. How can I help you today?"

\* The code point U+FE0F (variation selector 16) that follows the warning
\* sign U+26A0 in the literal of line 158.
VariationSelector16 == 65039

\* The literal appended at line 158, in three fragments: read as UTF-8, the
\* lexer takes U+26A0 inside a string but not U+FE0F, which is therefore
\* written as its code point between the text before and after it.
Disclaimer ==
    <<"\n\n⚠", VariationSelector16, " Disclaimer: Consult a doctor before taking any medication.">>

----------------------------------------------------------------------------
(* The data source *)

Columns(t) ==
    CASE t = "Medicines" -> {"Name", "Generic Name", "Uses", "Side Effects",
                             "Common Brands (India)", "Prescription"}
      [] t = "Diseases"  -> {"Name", "Symptoms", "Recommended Medicines", "Precautions"}
      [] t = "Symptoms"  -> {"Name", "Associated Diseases", "Severity"}

\* One column of each table whose absence the model explores.
DroppedColumn(t) ==
    CASE t = "Medicines" -> "Prescription"
      [] t = "Diseases"  -> "Precautions"
      [] t = "Symptoms"  -> "Severity"

\* The cell of row i, column c of worksheet t: an opaque value.
Cell(t, i, c) == <<t, i, c>>

\* A worksheet: absent, or a header and a number of rows under it.
Worksheets(t) ==
    {[exists |-> FALSE, header |-> {}, nrows |-> 0]} \cup
    [exists : {TRUE},
     header : {Columns(t), Columns(t) \ {DroppedColumn(t)}},
     nrows  : 0..MaxRows]

Sheets ==
    [reachable : BOOLEAN,
     Medicines : Worksheets("Medicines"),
     Diseases  : Worksheets("Diseases"),
     Symptoms  : Worksheets("Symptoms")]

\* sheet.worksheet(t).get_all_records(): one dict per row, keyed by the header.
get_all_records(ws, t) ==
    [i \in 1..ws.nrows |-> [c \in ws.header |-> Cell(t, i, c)]]

----------------------------------------------------------------------------
(* load_pharma_data *)

medicine_doc(row) ==
    [page_content |-> << <<"Medicine: ", row["Name"]>>,
                         <<"\nGeneric: ", row["Generic Name"]>>,
                         <<"\nUses: ", row["Uses"]>>,
                         <<"\nSide Effects: ", row["Side Effects"]>>,
                         <<"\nBrands: ", row["Common Brands (India)"]>> >>,
     metadata |-> [type |-> "medicine",
                   prescription |-> row["Prescription"],
                   brands |-> row["Common Brands (India)"]]]

\* Variant: the disease rows carry the medicine tag.
disease_doc_as_medicine(row) ==
    [page_content |-> << <<"Disease: ", row["Name"]>>,
                         <<"\nSymptoms: ", row["Symptoms"]>>,
                         <<"\nMedicines: ", row["Recommended Medicines"]>>,
                         <<"\nPrecautions: ", row["Precautions"]>> >>,
     metadata |-> [type |-> "medicine",
                   symptoms |-> row["Symptoms"],
                   medicines |-> row["Recommended Medicines"]]]

disease_doc(row) ==
    [page_content |-> << <<"Disease: ", row["Name"]>>,
                         <<"\nSymptoms: ", row["Symptoms"]>>,
                         <<"\nMedicines: ", row["Recommended Medicines"]>>,
                         <<"\nPrecautions: ", row["Precautions"]>> >>,
     metadata |-> [type |-> "disease",
                   symptoms |-> row["Symptoms"],
                   medicines |-> row["Recommended Medicines"]]]

symptom_doc(row) ==
    [page_content |-> << <<"Symptom: ", row["Name"]>>,
                         <<"\nAssociated Diseases: ", row["Associated Diseases"]>>,
                         <<"\nSeverity: ", row["Severity"]>> >>,
     metadata |-> [type |-> "symptom",
                   diseases |-> row["Associated Diseases"],
                   severity |-> row["Severity"]]]

\* The row lookups of a table's comprehension raise KeyError on a row that
\* lacks one of the columns it reads; with no rows nothing is looked up.
RowsReadable(ws, t) == ws.nrows = 0 \/ Columns(t) \subseteq ws.header

\* The exception load_pharma_data raises on sheet s, "" when it returns.
load_error(s) ==
    IF ~s.reachable THEN "ConnectionError"
    ELSE IF ~s.Medicines.exists THEN "WorksheetNotFound"
    ELSE IF ~RowsReadable(s.Medicines, "Medicines") THEN "KeyError"
    ELSE IF ~s.Diseases.exists THEN "WorksheetNotFound"
    ELSE IF ~RowsReadable(s.Diseases, "Diseases") THEN "KeyError"
    ELSE IF ~s.Symptoms.exists THEN "WorksheetNotFound"
    ELSE IF ~RowsReadable(s.Symptoms, "Symptoms") THEN "KeyError"
    ELSE ""

medicine_docs(s) ==
    LET recs == get_all_records(s.Medicines, "Medicines")
    IN  [i \in 1..Len(recs) |-> medicine_doc(recs[i])]

disease_docs(s) ==
    LET recs == get_all_records(s.Diseases, "Diseases")
    IN  [i \in 1..Len(recs) |-> disease_doc(recs[i])]

symptom_docs(s) ==
    LET recs == get_all_records(s.Symptoms, "Symptoms")
    IN  [i \in 1..Len(recs) |-> symptom_doc(recs[i])]

\* The value load_pharma_data returns on a sheet it does not raise on.
load_pharma_data(s) == medicine_docs(s) \o disease_docs(s) \o symptom_docs(s)


----------------------------------------------------------------------------
(* The index and the QA chain *)

\* FAISS.from_documents(docs, embeddings): the index holds the documents.
get_vectorstore(ds) == [documents |-> ds]

\* Variant: the retriever is asked for one document more.
create_qa_chain_wider(vectorstore) == [index |-> vectorstore.documents, k |-> K + 1]

\* RetrievalQA over vectorstore.as_retriever(search_kwargs={"k": 4}).
create_qa_chain(vectorstore) == [index |-> vectorstore.documents, k |-> K]

Min(a, b) == IF a < b THEN a ELSE b

RECURSIVE Ascending(_)
\* The members of a finite set of integers in increasing order.
Ascending(S) ==
    IF S = {} THEN <<>>
    ELSE LET m == CHOOSE x \in S : \A y \in S : x <= y
         IN  <<m>> \o Ascending(S \ {m})

\* The source documents a call of the chain can return: k documents of the
\* index at distinct positions, or all of them when the index holds fewer.
\* Which positions are nearest depends on the embedding and is left open;
\* the documents are listed by position.
Retrievals(chain) ==
    LET n == Len(chain.index)
    IN  {[j \in 1..Len(ix) |-> chain.index[ix[j]]] :
            ix \in {Ascending(P) : P \in {Q \in SUBSET (1..n) :
                                            Cardinality(Q) = Min(chain.k, n)}}}

\* What st.session_state.qa_chain({"query": prompt}) can return.
ChainResults(chain) ==
    [result : Answers, source_documents : Retrievals(chain)]

----------------------------------------------------------------------------
(* The chat response *)

\* set([doc.metadata["type"] for doc in result["source_documents"]])
SourceTypes(res) ==
    {res.source_documents[i].metadata.type : i \in 1..Len(res.source_documents)}

\* list(S) of a set S: its members once each, in an order the code does not fix.
ListsOf(S) ==
    {l \in [1..Cardinality(S) -> S] : \A i, j \in 1..Cardinality(S) : l[i] = l[j] => i = j}

\* Variant: the response ends at the citation line.
FormatResponse_bare(res, sources) ==
    <<res.result, <<"\n\nSources: ", sources>>>>

\* Lines 151-158: the answer, the citation line over sources, the disclaimer.
FormatResponse(res, sources) ==
    <<res.result, <<"\n\nSources: ", sources>>, Disclaimer>>

Message(role, content) == [role |-> role, content |-> content]

----------------------------------------------------------------------------
(* st.session_state *)

Has(key) == key \in DOMAIN session_state

\* session_state[key] = value
Store(ss, key, value) ==
    [k \in DOMAIN ss \cup {key} |-> IF k = key THEN value ELSE ss[k]]

\* Variant: initialization runs in every run.
NeedsInit_always(ss) == TRUE

\* Line 118: initialization runs when the chain is not in the session state.
NeedsInit(ss) == "qa_chain" \notin DOMAIN ss

\* Variant: every run starts the history over with the greeting.
WithGreeting_fresh(ss) ==
    Store(ss, "messages", <<Message("assistant", <<Greeting>>)>>)

\* Lines 133-136: the greeting is stored when the session has no history.
WithGreeting(ss) ==
    IF "messages" \notin DOMAIN ss
    THEN Store(ss, "messages", <<Message("assistant", <<Greeting>>)>>)
    ELSE ss

\* Line 143 / line 160: st.session_state.messages.append(...)
AppendMessage(ss, m) == Store(ss, "messages", Append(ss["messages"], m))

\* Variant: the handler clears the history.
AfterGenerationError_reset(ss) ==
    [k \in DOMAIN ss \ {"messages"} |-> ss[k]]

\* Variant: the handler records the error text as an assistant message.
AfterGenerationError_recorded(ss) ==
    AppendMessage(ss, Message("assistant", <<"Error: ", "GenerationError">>))

\* Lines 161-162: the handler of a failed QA chain call leaves the session state alone.
AfterGenerationError(ss) == ss

NoShow == [error |-> <<>>, response |-> <<>>]

----------------------------------------------------------------------------
(* The runs of main() *)

Init ==
    /\ session_state = [k \in {} |-> <<>>]
    /\ pc = "idle"
    /\ prompt = ""
    /\ docs = <<>>
    /\ result = <<>>
    /\ shown = NoShow
    /\ inputRendered = FALSE
    /\ sheet = <<>>
    /\ loads = 0
    /\ asks = 0
    /\ initFailed = FALSE
    /\ turns = 0
    /\ failedTurns = 0
    /\ answered = 0
    /\ exc = <<>>
    /\ interrupted = FALSE

\* The script starts: a rerun (p = "": the first run of the session, or the
\* user rerunning the app, which needs no widget) or a question submitted in
\* a chat input on the screen.  The run before it has ended, by itself or
\* through Interrupt.
Run(p) ==
    /\ pc = "idle"
    /\ p # "" => inputRendered /\ turns < MaxTurns
    /\ pc' = "init"
    /\ prompt' = p
    /\ docs' = <<>>
    /\ result' = <<>>
    /\ shown' = NoShow
    /\ sheet' = <<>>
    /\ loads' = 0
    /\ asks' = 0
    /\ exc' = <<>>
    /\ interrupted' = FALSE
    /\ UNCHANGED <<session_state, inputRendered, initFailed, turns, failedTurns, answered>>

\* The places of a run at which it calls st.*: lines 113-119 ("init"),
\* 122-124 ("index"), 128 ("init_except"), 129 ("init_full"), 126 and
\* 139-142 ("chat"), 144-148 ("ask"), 159 ("respond"), 162 ("except").
YieldPoints ==
    {"init", "index", "init_except", "init_full", "chat", "ask", "respond", "except"}

\* The host ends the run at an st.* call because the user has interacted
\* again: the control exception it raises there is no Exception, so neither
\* except clause catches it, and the element of that call is not displayed.
\* In the chat interface the greeting of line 134 is stored or not, as the
\* call is st.chat_message/st.chat_input or the st.success of line 126.
Interrupt ==
    /\ pc \in YieldPoints
    /\ pc' = "idle"
    /\ interrupted' = TRUE
    /\ \/ session_state' = session_state
       \/ pc = "chat" /\ session_state' = WithGreeting(session_state)
    /\ UNCHANGED <<prompt, docs, result, shown, inputRendered, sheet, loads, asks,
                   initFailed, turns, failedTurns, answered, exc>>

\* Line 118, chain present: straight to the chat interface.
SkipInit ==
    /\ pc = "init"
    /\ ~NeedsInit(session_state)
    /\ pc' = "chat"
    /\ UNCHANGED <<session_state, prompt, docs, result, shown, inputRendered, sheet,
                   loads, asks, initFailed, turns, failedTurns, answered, exc, interrupted>>

\* Line 121 returns.
LoadOK ==
    /\ pc = "init"
    /\ NeedsInit(session_state)
    /\ \E s \in Sheets :
        /\ load_error(s) = ""
        /\ sheet' = <<s>>
        /\ docs' = load_pharma_data(s)
    /\ loads' = loads + 1
    /\ pc' = "index"
    /\ UNCHANGED <<session_state, prompt, result, shown, inputRendered, asks,
                   initFailed, turns, failedTurns, answered, exc, interrupted>>

\* Line 121 raises: control passes to the handler of line 127.
LoadFail ==
    /\ pc = "init"
    /\ NeedsInit(session_state)
    /\ \E s \in Sheets :
        /\ load_error(s) # ""
        /\ sheet' = <<s>>
        /\ exc' = <<load_error(s)>>
    /\ loads' = loads + 1
    /\ initFailed' = TRUE
    /\ pc' = "init_except"
    /\ UNCHANGED <<session_state, prompt, docs, result, shown, inputRendered, asks,
                   turns, failedTurns, answered, interrupted>>

\* Lines 123-126: the index and the chain are built and the chain is stored.
BuildOK ==
    /\ pc = "index"
    /\ session_state' = Store(session_state, "qa_chain",
                              create_qa_chain(get_vectorstore(docs)))
    /\ pc' = "chat"
    /\ sheet' = <<>>
    /\ UNCHANGED <<prompt, docs, result, shown, inputRendered, loads, asks,
                   initFailed, turns, failedTurns, answered, exc, interrupted>>

\* Line 123 or line 125 raises (embedding model, index construction, LLM client).
BuildFail ==
    /\ pc = "index"
    /\ \E kind \in {"IndexBuildError", "ChainError"} : exc' = <<kind>>
    /\ sheet' = <<>>
    /\ initFailed' = TRUE
    /\ pc' = "init_except"
    /\ UNCHANGED <<session_state, prompt, docs, result, shown, inputRendered, loads, asks,
                   turns, failedTurns, answered, interrupted>>

\* Line 128 of the handler: st.error with str(e).
InitFailed ==
    /\ pc = "init_except"
    /\ shown' = [shown EXCEPT !.error =
                    Append(@, <<"Initialization failed: ", <<"str", exc[1]>>>>)]
    /\ pc' = "init_full"
    /\ UNCHANGED <<session_state, prompt, docs, result, inputRendered, sheet, loads, asks,
                   initFailed, turns, failedTurns, answered, exc, interrupted>>

\* Variant: the errors are shown but the run goes on to the chat interface.
InitStop_continue ==
    /\ pc = "init_full"
    /\ shown' = [shown EXCEPT !.error = Append(@, <<"Full error: ", <<"repr", exc[1]>>>>)]
    /\ pc' = "chat"
    /\ UNCHANGED <<session_state, prompt, docs, result, inputRendered, sheet, loads, asks,
                   initFailed, turns, failedTurns, answered, exc, interrupted>>

\* Variant: the errors are shown and initialization is attempted again.
InitStop_retry ==
    /\ pc = "init_full"
    /\ shown' = [shown EXCEPT !.error = Append(@, <<"Full error: ", <<"repr", exc[1]>>>>)]
    /\ pc' = "init"
    /\ UNCHANGED <<session_state, prompt, docs, result, inputRendered, sheet, loads, asks,
                   initFailed, turns, failedTurns, answered, exc, interrupted>>

\* Lines 129-130: st.error with repr(e), then st.stop() ends the run.
InitStop ==
    /\ pc = "init_full"
    /\ shown' = [shown EXCEPT !.error = Append(@, <<"Full error: ", <<"repr", exc[1]>>>>)]
    /\ pc' = "idle"
    /\ UNCHANGED <<session_state, prompt, docs, result, inputRendered, sheet, loads, asks,
                   initFailed, turns, failedTurns, answered, exc, interrupted>>

\* Lines 133-142 with no question submitted: the run ends at the chat input.
ChatIdle ==
    /\ pc = "chat"
    /\ prompt = ""
    /\ session_state' = WithGreeting(session_state)
    /\ inputRendered' = TRUE
    /\ pc' = "idle"
    /\ UNCHANGED <<prompt, docs, result, shown, sheet, loads, asks,
                   initFailed, turns, failedTurns, answered, exc, interrupted>>

\* Variant: the question is not appended before the chain is called.
ChatAsk_unrecorded ==
    /\ pc = "chat"
    /\ prompt # ""
    /\ session_state' = WithGreeting(session_state)
    /\ inputRendered' = TRUE
    /\ pc' = "ask"
    /\ turns' = turns + 1
    /\ UNCHANGED <<prompt, docs, result, shown, sheet, loads, asks,
                   initFailed, failedTurns, answered, exc, interrupted>>

\* Lines 133-143 with a question: it is appended to the history.
ChatAsk ==
    /\ pc = "chat"
    /\ prompt # ""
    /\ session_state' = AppendMessage(WithGreeting(session_state),
                                      Message("user", <<prompt>>))
    /\ inputRendered' = TRUE
    /\ pc' = "ask"
    /\ turns' = turns + 1
    /\ UNCHANGED <<prompt, docs, result, shown, sheet, loads, asks,
                   initFailed, failedTurns, answered, exc, interrupted>>

\* Line 150 returns.
InvokeOK ==
    /\ pc = "ask"
    /\ \E r \in ChainResults(session_state["qa_chain"]) : result' = <<r>>
    /\ asks' = asks + 1
    /\ pc' = "respond"
    /\ UNCHANGED <<session_state, prompt, docs, shown, inputRendered, sheet, loads,
                   initFailed, turns, failedTurns, answered, exc, interrupted>>

\* Line 150 raises: control passes to the handler of line 161.
InvokeFail ==
    /\ pc = "ask"
    /\ asks' = asks + 1
    /\ exc' = <<"GenerationError">>
    /\ failedTurns' = failedTurns + 1
    /\ pc' = "except"
    /\ UNCHANGED <<session_state, prompt, docs, result, shown, inputRendered, sheet, loads,
                   initFailed, turns, answered, interrupted>>

\* Lines 161-162: the error is shown and the run ends.
GenerationError ==
    /\ pc = "except"
    /\ shown' = [shown EXCEPT !.error = Append(@, <<"Error: ", <<"str", exc[1]>>>>)]
    /\ session_state' = AfterGenerationError(session_state)
    /\ pc' = "idle"
    /\ UNCHANGED <<prompt, docs, result, inputRendered, sheet, loads, asks,
                   initFailed, turns, failedTurns, answered, exc, interrupted>>

\* Lines 151-160: the response is built, shown and appended to the history.
Respond ==
    /\ pc = "respond"
    /\ \E sources \in ListsOf(SourceTypes(result[1])) :
        LET response == FormatResponse(result[1], sources)
        IN  /\ shown' = [shown EXCEPT !.response = <<response>>]
            /\ session_state' = AppendMessage(session_state,
                                              Message("assistant", response))
    /\ result' = <<>>
    /\ pc' = "idle"
    /\ answered' = answered + 1
    /\ UNCHANGED <<prompt, docs, inputRendered, sheet, loads, asks, initFailed,
                   turns, failedTurns, exc, interrupted>>

Next ==
    \/ \E p \in Questions \cup {""} : Run(p)
    \/ Interrupt
    \/ SkipInit
    \/ LoadOK
    \/ LoadFail
    \/ BuildOK
    \/ BuildFail
    \/ InitFailed
    \/ InitStop
    \/ ChatIdle
    \/ ChatAsk
    \/ InvokeOK
    \/ InvokeFail
    \/ GenerationError
    \/ Respond

Spec == Init /\ [][Next]_vars

----------------------------------------------------------------------------
(* Properties *)

\* The history, empty while the session state has none.
Messages == IF Has("messages") THEN session_state["messages"] ELSE <<>>

IsPrefix(a, b) == Len(a) <= Len(b) /\ \A i \in 1..Len(a) : a[i] = b[i]

Last(q) == q[Len(q)]

UserMessage == Message("user", <<prompt>>)

InitError == shown.error # <<>> /\ shown.error[1][1] = "Initialization failed: "

GenerationErrorShown == shown.error # <<>> /\ shown.error[1][1] = "Error: "

\* The QA chain call of the current turn has raised.
GenerationFailed == exc = <<"GenerationError">>

\* Initialization has raised in the current run.
InitFailedNow == exc # <<>> /\ exc # <<"GenerationError">>

\* A step that ends a run in which the QA chain call raised.
FailedTurnEnds == pc = "except" /\ pc' = "idle"

\* A step that ends a run in which the QA chain call returned.
AnsweredTurnEnds == pc = "respond" /\ pc' = "idle"

\* A step in which the answer of the current turn is stored.
TurnSucceeds == pc = "respond" /\ answered' = answered + 1

\* A step that ends a run in which initialization raised.
FailedInitEnds == pc \in {"init_except", "init_full"} /\ pc' \notin {"init_except", "init_full"}

SameChain ==
    /\ "qa_chain" \in DOMAIN session_state'
    /\ session_state'["qa_chain"] = session_state["qa_chain"]

CountType(ds, ty) == Cardinality({i \in 1..Len(ds) : ds[i].metadata.type = ty})

\* C1 as stated: in every turn whose QA chain call raises the error is shown,
\* the earlier messages and the qa_chain stay as they were, and a later turn
\* whose call succeeds appends its assistant answer to the history.
C1_ErrorAlwaysShown ==
    [][ /\ FailedTurnEnds =>
            /\ shown'.error # <<>>
            /\ Has("messages")' /\ IsPrefix(Messages, Messages')
            /\ SameChain
        /\ (failedTurns > 0 /\ AnsweredTurnEnds) =>
            /\ shown'.response # <<>>
            /\ Messages' = Append(Messages, Message("assistant", shown'.response[1]))
            /\ SameChain ]_vars

\* C1 amended: a generation failure is local to its turn: the run in which
\* the QA chain call raises keeps every earlier message in place, keeps the
\* stored qa_chain and leaves the chat input available, and shows the error
\* unless the host ends the run at the st.error call; in a session that has
\* had such a failure, a turn whose call succeeds appends its assistant
\* answer to the history, with the same qa_chain, unless the host ends the
\* run at the st.markdown call before it.
C1_GenerationFailureLocal ==
    [][ /\ (pc = "ask" /\ pc' = "except") =>
            /\ session_state' = session_state
            /\ GenerationFailed'
        /\ FailedTurnEnds =>
            /\ interrupted' \/ GenerationErrorShown'
            /\ Has("messages")' /\ IsPrefix(Messages, Messages')
            /\ SameChain
            /\ inputRendered'
        /\ (failedTurns > 0 /\ AnsweredTurnEnds) =>
            /\ interrupted' \/
                  /\ shown'.response # <<>>
                  /\ Messages' = Append(Messages, Message("assistant", shown'.response[1]))
            /\ IsPrefix(Messages, Messages')
            /\ SameChain ]_vars

\* C1 witness: a turn that was answered after an earlier turn of the session failed.
C1_Witness ==
    /\ pc = "idle"
    /\ failedTurns > 0
    /\ ~interrupted
    /\ shown.response # <<>>
    /\ Len(Messages) >= 4
    /\ Messages[Len(Messages) - 2].role = "user"

\* C2: a startup failure halts the run before the chat interface: whenever
\* the run is in the chat interface or the QA chain has been called, qa_chain
\* is in the session state; while it is not, there is no history, no call of
\* the chain, no recorded question and no chat input; and a run in which
\* initialization raised is in its handler or over, with no qa_chain stored,
\* both errors shown if the handler ran to its st.stop().
C2_StartupFailureHalts ==
    /\ pc \in {"chat", "ask", "respond", "except"} => Has("qa_chain")
    /\ asks > 0 => Has("qa_chain")
    /\ ~Has("qa_chain") => ~Has("messages") /\ asks = 0 /\ ~inputRendered /\ turns = 0
    /\ InitFailedNow => pc \in {"init_except", "init_full", "idle"} /\ ~Has("qa_chain")
    /\ InitError => pc \in {"init_full", "idle"} /\ InitFailedNow
    /\ (InitError /\ ~interrupted /\ pc = "idle") => Len(shown.error) = 2

\* C2 witness: a run halted by a table that lacks a required column.
C2_Witness ==
    /\ InitError
    /\ ~interrupted
    /\ exc = <<"KeyError">>
    /\ sheet # <<>>
    /\ sheet[1].Medicines.exists
    /\ pc = "idle"

\* C3 as stated: after every completed turn, whatever the outcome of the
\* answer call, the history has grown by exactly two entries, so after the
\* greeting the roles alternate user, assistant, user, assistant, ...
C3_TwoPerTurn ==
    (pc = "idle" /\ ~interrupted /\ Has("messages")) =>
        /\ Len(Messages) = 1 + 2 * turns
        /\ \A i \in 2..Len(Messages) :
              Messages[i].role = (IF i % 2 = 0 THEN "user" ELSE "assistant")

\* C3 amended: the history holds the greeting, one entry for every question
\* accepted and one more, the assistant message, for every turn whose answer
\* call returned and whose run reached line 160; a turn whose call raised,
\* or whose run the host ended first, adds the question alone.  Every
\* assistant message after the greeting directly follows a user message.
C3_TwoPerAnsweredTurn ==
    Has("messages") =>
        /\ Len(Messages) = 1 + turns + answered
        /\ answered + failedTurns <= turns
        /\ Messages[1] = Message("assistant", <<Greeting>>)
        /\ \A i \in 2..Len(Messages) :
              Messages[i].role = "assistant" => Messages[i - 1].role = "user"
        /\ Cardinality({i \in 1..Len(Messages) : Messages[i].role = "user"}) = turns

\* C3 witness: a session with a failed turn and an answered one.
C3_Witness ==
    /\ pc = "idle"
    /\ failedTurns = 1
    /\ answered = 1
    /\ turns = 2
    /\ Len(Messages) = 4

\* C4: load_pharma_data returns one Document per row, in table order, each
\* with the type tag of its table: m + d + s Documents, of which m are
\* tagged medicine, d disease and s symptom, and every tag is one of the three.
C4_OneDocumentPerRow ==
    (pc = "index" /\ sheet # <<>>) =>
        LET m == sheet[1].Medicines.nrows
            d == sheet[1].Diseases.nrows
            s == sheet[1].Symptoms.nrows
        IN  /\ Len(docs) = m + d + s
            /\ CountType(docs, "medicine") = m
            /\ CountType(docs, "disease") = d
            /\ CountType(docs, "symptom") = s
            /\ \A i \in 1..Len(docs) : docs[i].metadata.type \in Types
            /\ \A i \in 1..m : docs[i].metadata.type = "medicine"
            /\ \A i \in (m + 1)..(m + d) : docs[i].metadata.type = "disease"

\* C4 witness: tables of two, two and no rows loaded into four Documents.
C4_Witness ==
    /\ pc = "index"
    /\ sheet # <<>>
    /\ sheet[1].Medicines.nrows = 2
    /\ sheet[1].Diseases.nrows = 2
    /\ sheet[1].Symptoms.nrows = 0
    /\ Len(docs) = 4

\* The source types cited by the assistant message that ends the history.
Cited(msgs) == Last(msgs).content[2][2]

\* C5: for every question answered, the retrieved documents are at most K
\* documents at distinct positions of the index, and the cited source types
\* are a duplicate-free list over {medicine, disease, symptom} whose set is
\* the set of type tags of the retrieved documents, of size at most K.
C5_CitedTypes ==
    /\ [](result # <<>> =>
            LET src == result[1].source_documents
                index == session_state["qa_chain"].index
            IN  /\ Len(src) <= K
                /\ \A j \in 1..Len(src) : \E i \in 1..Len(index) : index[i] = src[j]
                /\ \A i, j \in 1..Len(src) : src[i] = src[j] => i = j
                /\ SourceTypes(result[1]) \subseteq Types
                /\ Cardinality(SourceTypes(result[1])) <= K)
    /\ [][TurnSucceeds =>
            LET cited == Cited(Messages')
            IN  /\ \A i, j \in 1..Len(cited) : cited[i] = cited[j] => i = j
                /\ {cited[i] : i \in 1..Len(cited)} = SourceTypes(result[1])
                /\ {cited[i] : i \in 1..Len(cited)} \subseteq Types
                /\ Len(cited) <= K]_vars

\* C5 witness: K documents of two types retrieved from an index holding more.
C5_Witness ==
    /\ pc = "respond"
    /\ result # <<>>
    /\ Len(session_state["qa_chain"].index) > K
    /\ Len(result[1].source_documents) = K
    /\ Cardinality(SourceTypes(result[1])) = 2

\* C6: every assistant message appended by a turn is the generated answer,
\* then the citation line, then the disclaimer, and the text a turn showed
\* is the text it stored.
C6_DisclaimerAppended ==
    /\ \A i \in 2..Len(Messages) :
          Messages[i].role = "assistant" =>
              LET c == Messages[i].content
              IN  /\ Len(c) = 3
                  /\ c[1] \in Answers
                  /\ c[2][1] = "\n\nSources: "
                  /\ c[Len(c)] = Disclaimer
    /\ shown.response # <<>> =>
          pc = "idle" /\ Last(Messages) = Message("assistant", shown.response[1])

\* C6 witness: a turn has shown and stored its answer.
C6_Witness ==
    /\ shown.response # <<>>
    /\ Last(Messages).role = "assistant"
    /\ Len(Messages) >= 3

\* C7: once qa_chain is in the session state, no step calls
\* load_pharma_data or builds an index again, and the stored qa_chain never changes.
C7_IndexBuiltOnce ==
    [][Has("qa_chain") => /\ SameChain
                          /\ loads' <= loads
                          /\ pc' \notin {"index", "init_except", "init_full"}]_vars

\* C7 witness: a later run, after a failed and an answered turn, that loaded nothing.
C7_Witness ==
    /\ Has("qa_chain")
    /\ pc = "idle"
    /\ loads = 0
    /\ failedTurns >= 1
    /\ answered >= 1

\* C8: the history is append-only: in every step the history before is a
\* prefix of the history after, a history once present stays present, and
\* the greeting is stored only by a step that finds no history.
C8_HistoryAppendOnly ==
    [][ /\ IsPrefix(Messages, Messages')
        /\ Has("messages") => Has("messages")'
        /\ \A i \in (Len(Messages) + 1)..Len(Messages') :
              Messages'[i] = Message("assistant", <<Greeting>>) =>
                  ~Has("messages") /\ i = 1 ]_vars

\* C8 witness: a history of the greeting and two turns.
C8_Witness ==
    /\ Len(Messages) >= 4
    /\ pc = "idle"
    /\ Messages[1] = Message("assistant", <<Greeting>>)

\* C9 as stated: every failure shows an error, and the failed operation is
\* not attempted again in the session: after an initialization failure no
\* later step calls load_pharma_data, and a turn calls the chain at most once.
C9_NeverAttemptedAgain ==
    [][ /\ (FailedInitEnds \/ FailedTurnEnds) => shown'.error # <<>>
        /\ initFailed => loads' <= loads
        /\ asks' <= 1 ]_vars

\* C9 amended: a failure ends the run in which it happened, with its error
\* shown unless the host ends the run at the st.error call, and no run calls
\* load_pharma_data or the QA chain more than once; a later run of the
\* session that finds no qa_chain in the session state does attempt
\* initialization again.
C9_NotRetriedWithinRun ==
    /\ [](loads <= 1 /\ asks <= 1)
    /\ [][ /\ FailedInitEnds =>
               pc' = "idle" /\ (interrupted' \/ Len(shown'.error) = 2) /\ initFailed'
           /\ pc = "except" =>
               pc' = "idle" /\ (interrupted' \/ shown'.error # <<>>)
           /\ (pc = "idle" /\ pc' = "init") => loads' = 0 /\ asks' = 0
           /\ (pc = "init" /\ ~Has("qa_chain") /\ pc' # "idle") => loads' = loads + 1 ]_vars

\* C9 witness: a run that attempts initialization after an earlier run failed it.
C9_Witness ==
    /\ initFailed
    /\ exc = <<>>
    /\ loads = 1
    /\ pc = "index"

\* C10: the question is in the history before the QA chain is called: while
\* the call is pending, answered or failed the history ends with the
\* question, after an answered turn the question directly precedes the
\* answer, and after a failing turn the history ends with the question, with
\* no assistant message and no error text for that turn.
C10_QuestionRecordedFirst ==
    /\ pc \in {"ask", "respond", "except"} => Has("messages") /\ Last(Messages) = UserMessage
    /\ pc = "ask" => asks = 0
    /\ asks > 0 => \E i \in 1..Len(Messages) : Messages[i] = UserMessage
    /\ GenerationFailed =>
          /\ Last(Messages) = UserMessage
          /\ \A i \in 1..Len(Messages) : Messages[i].content[1] # "Error: "
    /\ (pc = "idle" /\ shown.response # <<>>) =>
          Messages[Len(Messages) - 1] = UserMessage

\* C10 witness: a failed turn whose question ends the history.
C10_Witness ==
    /\ pc = "idle"
    /\ GenerationFailed
    /\ GenerationErrorShown
    /\ asks = 1
    /\ Last(Messages).role = "user"

============================================================================
